---- MODULE Spec2Model ----
(***************************************************************************)
(* Git Graph extension entry point (src/src/extension.ts): activation,     *)
(* propagation of the Git executable to the components that depend on it,  *)
(* dispatch of configuration changes, and teardown.                        *)
(*                                                                         *)
(* Every handler of the program (activate up to its await, the two         *)
(* continuations of that await, the configuration listener, the two        *)
(* continuations of getGitExecutable(path).then, and the disposal of       *)
(* context.subscriptions) runs to completion on the single JavaScript      *)
(* thread, so each is one action.  `trace` records, in program order, the  *)
(* calls each handler makes; a handler's calls start with an entry of op   *)
(* "handler".                                                              *)
(***************************************************************************)
EXTENDS Integers, Sequences, FiniteSets, TLC

VARIABLES
    pc,             \* where the extension's lifecycle stands
    gitExecutable,  \* activate's `let gitExecutable: GitExecutable | null`
    listeners,      \* gitExecutableEmitter's subscribers, in subscription order
    held,           \* the Git executable each subscribing component currently holds
    inflight,       \* paths of the getGitExecutable calls not yet settled, in call order
    lastEvent,      \* the sections the last ConfigurationChangeEvent affects
    raising,        \* the components whose listener raises when called
    repoManager,    \* repoManager's scan state and the repository set readers see
    trace           \* the calls made so far, in program order

vars == <<pc, gitExecutable, listeners, held, inflight, lastEvent, raising, repoManager, trace>>

----
\* Bounds of the model.

\* How many configuration-change notifications the environment delivers.
MaxNotifications == 2

\* How many subscribe, unsubscribe and emit calls the bus is driven with (BusSpec).
MaxBusCalls == 5

\* How deep below the workspace root the deepest repository lies, and the largest
\* value of the maxDepthOfRepoSearch setting (ScanSpec).
MaxDepth == 2

----
\* Values.

\* null where a GitExecutable is expected.
null == [absent |-> TRUE]

\* null where a path (a string) is expected.
nullPath == "null"

\* The Git executables present on the machine: path -> version.
Installed == ("/usr/bin/git" :> "2.30.0") @@ ("/opt/git2/bin/git" :> "2.40.1")

\* The values the "git.path" setting takes (besides null).
Paths == {"/usr/bin/git", "/opt/git2/bin/git", "/tmp/not-git"}

GitExecutables == {[path |-> p, version |-> Installed[p]] : p \in DOMAIN Installed}

\* The configuration sections the listener asks about.
Sections == {"git-graph.showStatusBarItem", "git-graph.dateType",
             "git-graph.showSignatureStatus", "git-graph.useMailmap",
             "git-graph.maxDepthOfRepoSearch", "git.path"}

Range(s) == {s[i] : i \in DOMAIN s}

Call(op, who, arg) == [op |-> op, who |-> who, arg |-> arg]

Handler(name, arg) == Call("handler", name, arg)

\* getGitExecutable(path): resolves to the executable at `path`, or rejects.
getGitExecutable(path) ==
    IF path \in DOMAIN Installed
    THEN [ok |-> TRUE, value |-> [path |-> path, version |-> Installed[path]]]
    ELSE [ok |-> FALSE, value |-> null]

----
\* Messages: a string concatenation is the tuple of its pieces.

UNABLE_TO_FIND_GIT_MSG == <<"UNABLE_TO_FIND_GIT_MSG">>

UsingMsg(ge) == <<"Using ", ge.path, " (version: ", ge.version, ")">>

NowUsingMsg(ge) == <<"Git Graph is now using ", ge.path, " (version: ", ge.version, ")">>

InvalidPathMsg(path) ==
    <<"The new value of \"git.path\" (", path,
      ") does not match the path and filename of a valid Git executable.">>

ReadyMsg == <<"Started Git Graph - Ready to use!">>

----
\* EventEmitter<GitExecutable>.

\* subscribe(listener): appended to the subscribers; nothing is replayed.
subscribe(ls, d) == Append(ls, d)

\* Mutant: the returned Disposable leaves the listener subscribed.
unsubscribe_Keeps(ls, d) == ls

\* The Disposable that subscribe returns: removes the listener, idempotent.
unsubscribe(ls, d) == SelectSeq(ls, LAMBDA x : x # d)

\* The call of d's listener; when it raises, emit catches the error and reports it
\* to the log.
callListener(d, ge) ==
    <<Call("listener", d, ge)>>
        \o (IF d \in raising THEN <<Call("logError", "logger", <<"listener raised: ", d>>)>>
            ELSE <<>>)

RECURSIVE callListeners(_, _)
callListeners(ls, ge) ==
    IF ls = <<>> THEN <<>> ELSE callListener(Head(ls), ge) \o callListeners(Tail(ls), ge)

\* emit(ge): every current subscriber is called once, in subscription order.
emit(ls, ge) == <<Call("emit", "gitExecutableEmitter", ge)>> \o callListeners(ls, ge)

\* Mutant: an error raised by a listener propagates to the caller of emit.
emitThrows_Propagates(ls) == \E d \in Range(ls) : d \in raising

\* Whether emit throws to its caller: a raising listener is isolated, so never.
emitThrows(ls) == FALSE

\* What the subscribers hold after emit(ge): each listener that does not raise stores
\* the value.
heldAfterEmit(h, ls, ge) ==
    [d \in DOMAIN h |-> IF d \in Range(ls) /\ d \notin raising THEN ge ELSE h[d]]


----
\* RepoManager: the repository set and the workspace scan that replaces it.

\* The values the maxDepthOfRepoSearch setting takes.
DepthLimits == 1..MaxDepth

\* The workspace holds one repository root at each depth; a root is named by its depth.
Workspace == 0..MaxDepth

\* The record of a root, with the depth limit of the scan that found it.
RepositoryRecord(root, limit) == [rootPath |-> root, limit |-> limit]

\* The complete result of a scan bounded at limit.
scanResult(limit) == {RepositoryRecord(r, limit) : r \in {w \in Workspace : w <= limit}}

\* No scan yet: nothing in flight, nothing queued, no repository known.
\* (isFollowUp: the scan in flight is one that was queued behind another.)
idle ==
    [scanning |-> "idle", followUp |-> FALSE, isFollowUp |-> FALSE, limit |-> 0,
     found |-> {}, repos |-> {}]

\* A trigger starts a scan, or, with one in flight, queues one follow-up scan.
trigger(rm) ==
    IF rm.scanning = "idle" THEN [rm EXCEPT !.scanning = "starting", !.isFollowUp = FALSE]
    ELSE [rm EXCEPT !.followUp = TRUE]

\* repoManager after a handler made these calls.
afterCalls(rm, calls) ==
    IF \E i \in DOMAIN calls :
          calls[i].op \in {"maxDepthOfRepoSearchChanged", "searchWorkspaceForRepos"}
    THEN trigger(rm)
    ELSE rm

\* Mutant: every root a scan finds is merged into the set readers see at once.
visibleAfterFound_Merged(repos, rec) == repos \cup {rec}

\* The set readers see after an in-flight scan found rec: unchanged until the scan
\* completes.
visibleAfterFound(repos, rec) == repos

----
\* activate.

\* The components handed onDidChangeGitExecutable by their constructor call.
ReceivesEmitter == {"extensionState", "dataSource", "commandManager"}

\* Mutant: the command manager is not handed gitExecutable.
ReceivesGitExecutable_DataSourceOnly == {"dataSource"}

\* The components handed gitExecutable by their constructor call.
ReceivesGitExecutable == {"dataSource", "commandManager"}

\* The components constructed after the try/catch, in order.
ConstructionOrder ==
    <<"dataSource", "avatarManager", "repoManager", "statusBarItem", "commandManager">>

\* Mutant: the emitter is pushed ahead of the components.
subscriptions_BusFirst ==
    <<"diffDocProvider", "onDidChangeConfiguration", "gitExecutableEmitter",
      "commandManager", "statusBarItem", "repoManager", "avatarManager", "dataSource",
      "extensionState", "logger">>

\* context.subscriptions.push(...): the Disposables, in the order pushed.
subscriptions ==
    <<"diffDocProvider", "onDidChangeConfiguration", "commandManager", "statusBarItem",
      "repoManager", "avatarManager", "dataSource", "extensionState",
      "gitExecutableEmitter", "logger">>

\* A component handed onDidChangeGitExecutable subscribes in its constructor.
subscribesInConstructor(d) == d \in ReceivesEmitter

\* new X(...): the constructor call, and the subscription X makes in it.
construct(d, ge) ==
    <<Call("new", d, IF d \in ReceivesGitExecutable THEN ge ELSE null)>>
        \o (IF subscribesInConstructor(d) THEN <<Call("subscribe", d, null)>> ELSE <<>>)

RECURSIVE constructAll(_, _)
constructAll(ds, ge) ==
    IF ds = <<>> THEN <<>> ELSE construct(Head(ds), ge) \o constructAll(Tail(ds), ge)

\* Mutant: ready is reported before the components are constructed.
afterTry_ReadyFirst(ge) ==
    <<Call("log", "logger", ReadyMsg)>>
        \o constructAll(ConstructionOrder, ge)
        \o <<Call("registerTextDocumentContentProvider", "workspace", null),
             Call("onDidChangeConfiguration", "workspace", null),
             Call("push", "context.subscriptions", subscriptions),
             Call("expireOldCodeReviews", "extensionState", null)>>

\* What activate does after its try/catch: constructs the components, registers
\* the Disposables, reports ready.
afterTry(ge) ==
    constructAll(ConstructionOrder, ge)
        \o <<Call("registerTextDocumentContentProvider", "workspace", null),
             Call("onDidChangeConfiguration", "workspace", null),
             Call("push", "context.subscriptions", subscriptions),
             Call("log", "logger", ReadyMsg),
             Call("expireOldCodeReviews", "extensionState", null)>>

listenersAfterTry(ls) == ls \o SelectSeq(ConstructionOrder, subscribesInConstructor)

heldAfterTry(h, ge) == [d \in DOMAIN h |-> IF d \in ReceivesGitExecutable THEN ge ELSE h[d]]

Init ==
    /\ pc = "inactive"
    /\ gitExecutable = null
    /\ listeners = <<>>
    /\ held = [d \in ReceivesEmitter |-> null]
    /\ inflight = <<>>
    /\ lastEvent = {}
    /\ raising = {}
    /\ repoManager = idle
    /\ trace = <<>>

\* As Init, but the listener of one of the components is one that raises.
InitRaising ==
    /\ pc = "inactive"
    /\ gitExecutable = null
    /\ listeners = <<>>
    /\ held = [d \in ReceivesEmitter |-> null]
    /\ inflight = <<>>
    /\ lastEvent = {}
    /\ raising \in {{d} : d \in ReceivesEmitter}
    /\ repoManager = idle
    /\ trace = <<>>

\* activate's catch block.
catchBlock ==
    <<Call("showErrorMessage", "window", UNABLE_TO_FIND_GIT_MSG),
      Call("logError", "logger", UNABLE_TO_FIND_GIT_MSG)>>

\* activate, up to `await findGit(extensionState)`.
Activate ==
    /\ pc = "inactive"
    /\ pc' = "findGit"
    /\ listeners' = subscribe(listeners, "extensionState")
    /\ trace' = trace \o <<Handler("activate", null),
                          Call("log", "logger", <<"Starting Git Graph ...">>),
                          Call("new", "gitExecutableEmitter", null)>>
                      \o construct("extensionState", null)
                      \o <<Call("findGit", "extensionState", null)>>
    /\ UNCHANGED <<gitExecutable, held, inflight, lastEvent, raising, repoManager>>

\* findGit resolved: the try block completes (or, were emit to throw, is left for
\* the catch block), then the rest of activate.
FindGitFulfilled(ge) ==
    /\ pc = "findGit"
    /\ pc' = "ready"
    /\ gitExecutable' = IF emitThrows(listeners) THEN null ELSE ge
    /\ trace' = trace \o <<Handler("findGit.fulfilled", ge)>>
                      \o emit(listeners, ge)
                      \o (IF emitThrows(listeners) THEN catchBlock
                          ELSE <<Call("log", "logger", UsingMsg(ge))>>)
                      \o afterTry(gitExecutable')
    /\ held' = heldAfterTry(heldAfterEmit(held, listeners, ge), gitExecutable')
    /\ listeners' = listenersAfterTry(listeners)
    /\ UNCHANGED <<inflight, lastEvent, raising, repoManager>>

\* Mutant: the catch block reports the error and activate stops there.
FindGitRejected_Aborts ==
    /\ pc = "findGit"
    /\ pc' = "aborted"
    /\ gitExecutable' = null
    /\ trace' = trace \o <<Handler("findGit.rejected", null),
                          Call("showErrorMessage", "window", UNABLE_TO_FIND_GIT_MSG),
                          Call("logError", "logger", UNABLE_TO_FIND_GIT_MSG)>>
    /\ UNCHANGED <<listeners, held, inflight, lastEvent, raising, repoManager>>

\* findGit rejected: the catch block, then the rest of activate.
FindGitRejected ==
    /\ pc = "findGit"
    /\ pc' = "ready"
    /\ gitExecutable' = null
    /\ trace' = trace \o <<Handler("findGit.rejected", null)>> \o catchBlock \o afterTry(null)
    /\ held' = heldAfterTry(held, null)
    /\ listeners' = listenersAfterTry(listeners)
    /\ UNCHANGED <<inflight, lastEvent, raising, repoManager>>

----
\* The configuration listener.

\* Mutant: "git.path" is checked before the depth limit.
branch_PathBeforeDepth(e) ==
    IF "git-graph.showStatusBarItem" \in e THEN "showStatusBarItem"
    ELSE IF \/ "git-graph.dateType" \in e
            \/ "git-graph.showSignatureStatus" \in e
            \/ "git-graph.useMailmap" \in e THEN "commandFormats"
    ELSE IF "git.path" \in e THEN "git.path"
    ELSE IF "git-graph.maxDepthOfRepoSearch" \in e THEN "maxDepthOfRepoSearch"
    ELSE "none"

\* Which branch of the listener's if / else-if chain runs for event e.
branch(e) ==
    IF "git-graph.showStatusBarItem" \in e THEN "showStatusBarItem"
    ELSE IF \/ "git-graph.dateType" \in e
            \/ "git-graph.showSignatureStatus" \in e
            \/ "git-graph.useMailmap" \in e THEN "commandFormats"
    ELSE IF "git-graph.maxDepthOfRepoSearch" \in e THEN "maxDepthOfRepoSearch"
    ELSE IF "git.path" \in e THEN "git.path"
    ELSE "none"

\* Mutant: the depth-limit branch rescans only when a Git executable is known.
onDidChangeConfiguration_DepthNeedsGit(e, path) ==
    CASE branch(e) = "showStatusBarItem" -> <<Call("refresh", "statusBarItem", null)>>
      [] branch(e) = "commandFormats" -> <<Call("generateGitCommandFormats", "dataSource", null)>>
      [] branch(e) = "maxDepthOfRepoSearch" ->
            IF gitExecutable = null THEN <<>>
            ELSE <<Call("maxDepthOfRepoSearchChanged", "repoManager", null)>>
      [] branch(e) = "git.path" ->
            <<Call("getConfig", "config", path)>>
                \o (IF path = nullPath THEN <<>>
                    ELSE <<Call("getGitExecutable", "utils", path)>>)
      [] OTHER -> <<>>

\* Mutant: the listener resolves the path without the test for null.
onDidChangeConfiguration_NoNullCheck(e, path) ==
    CASE branch(e) = "showStatusBarItem" -> <<Call("refresh", "statusBarItem", null)>>
      [] branch(e) = "commandFormats" -> <<Call("generateGitCommandFormats", "dataSource", null)>>
      [] branch(e) = "maxDepthOfRepoSearch" ->
            <<Call("maxDepthOfRepoSearchChanged", "repoManager", null)>>
      [] branch(e) = "git.path" ->
            <<Call("getConfig", "config", path), Call("getGitExecutable", "utils", path)>>
      [] OTHER -> <<>>

\* The calls the listener makes for event e when getConfig().gitPath reads `path`.
onDidChangeConfiguration(e, path) ==
    CASE branch(e) = "showStatusBarItem" -> <<Call("refresh", "statusBarItem", null)>>
      [] branch(e) = "commandFormats" -> <<Call("generateGitCommandFormats", "dataSource", null)>>
      [] branch(e) = "maxDepthOfRepoSearch" ->
            <<Call("maxDepthOfRepoSearchChanged", "repoManager", null)>>
      [] branch(e) = "git.path" ->
            <<Call("getConfig", "config", path)>>
                \o (IF path = nullPath THEN <<>>
                    ELSE <<Call("getGitExecutable", "utils", path)>>)
      [] OTHER -> <<>>

\* The getGitExecutable calls among `calls`: the paths whose resolution starts.
started(calls) ==
    LET sel == SelectSeq(calls, LAMBDA c : c.op = "getGitExecutable")
    IN  [i \in 1..Len(sel) |-> sel[i].arg]

NotificationCount == Len(SelectSeq(trace, LAMBDA c : c.op = "handler" /\ c.who = "onDidChangeConfiguration"))

\* A ConfigurationChangeEvent affecting the sections e arrives; getConfig().gitPath,
\* where the listener reads it, reads p.
OnDidChangeConfiguration(e, p) ==
    /\ pc = "ready"
    /\ NotificationCount < MaxNotifications
    /\ branch(e) # "git.path" => p = nullPath
    /\ lastEvent' = e
    /\ LET calls == onDidChangeConfiguration(e, p)
       IN  /\ trace' = trace \o <<Handler("onDidChangeConfiguration", null)>> \o calls
           /\ inflight' = inflight \o started(calls)
           /\ repoManager' = afterCalls(repoManager, calls)
    /\ UNCHANGED <<pc, gitExecutable, listeners, held, raising>>

----
\* getGitExecutable(path).then(onFulfilled, onRejected).

Remove(s, i) == [j \in 1..(Len(s) - 1) |-> IF j < i THEN s[j] ELSE s[j + 1]]

\* Mutant: the fulfilment callback does not emit.
onFulfilled_NoEmit(ls, ge) ==
    <<Call("showInformationMessage", "window", NowUsingMsg(ge)),
      Call("log", "logger", NowUsingMsg(ge)),
      Call("searchWorkspaceForRepos", "repoManager", null)>>

\* Mutant: the fulfilment callback logs the message without showing it.
onFulfilled_LogOnly(ls, ge) ==
    emit(ls, ge)
        \o <<Call("log", "logger", NowUsingMsg(ge)),
             Call("searchWorkspaceForRepos", "repoManager", null)>>

\* Mutant: the fulfilment callback searches the workspace before it emits.
onFulfilled_SearchFirst(ls, ge) ==
    <<Call("searchWorkspaceForRepos", "repoManager", null)>>
        \o emit(ls, ge)
        \o <<Call("showInformationMessage", "window", NowUsingMsg(ge)),
             Call("log", "logger", NowUsingMsg(ge))>>

\* The calls of the fulfilment callback, given the subscribers at that time; were
\* emit to throw, the callback would end there.
onFulfilled(ls, ge) ==
    emit(ls, ge)
        \o (IF emitThrows(ls) THEN <<>>
            ELSE <<Call("showInformationMessage", "window", NowUsingMsg(ge)),
                   Call("log", "logger", NowUsingMsg(ge)),
                   Call("searchWorkspaceForRepos", "repoManager", null)>>)

\* Mutant: the rejection callback logs the error without showing it.
onRejected_LogOnly(path) == <<Call("logError", "logger", InvalidPathMsg(path))>>

\* The calls of the rejection callback; `path` is the path the listener read.
onRejected(path) ==
    <<Call("showErrorMessage", "window", InvalidPathMsg(path)),
      Call("logError", "logger", InvalidPathMsg(path))>>

\* Mutant: the fulfilment callback assigns activate's gitExecutable.
gitExecutableAfterFulfilled_Assigned(cur, ge) == ge

\* activate's gitExecutable after the fulfilment callback: the callback's parameter
\* `gitExecutable` shadows it, so it keeps the value `cur` it had.
gitExecutableAfterFulfilled(cur, ge) == cur

\* The i-th pending getGitExecutable call resolves.
GetGitExecutableFulfilled(i) ==
    /\ pc \in {"ready", "deactivated"}
    /\ i \in DOMAIN inflight
    /\ getGitExecutable(inflight[i]).ok
    /\ LET ge == getGitExecutable(inflight[i]).value
       IN  /\ trace' = trace \o <<Handler("getGitExecutable.fulfilled", ge)>>
                             \o onFulfilled(listeners, ge)
           /\ held' = heldAfterEmit(held, listeners, ge)
           /\ gitExecutable' = gitExecutableAfterFulfilled(gitExecutable, ge)
           /\ repoManager' = afterCalls(repoManager, onFulfilled(listeners, ge))
    /\ inflight' = Remove(inflight, i)
    /\ UNCHANGED <<pc, listeners, lastEvent, raising>>

\* The i-th pending getGitExecutable call rejects.
GetGitExecutableRejected(i) ==
    /\ pc \in {"ready", "deactivated"}
    /\ i \in DOMAIN inflight
    /\ ~getGitExecutable(inflight[i]).ok
    /\ trace' = trace \o <<Handler("getGitExecutable.rejected", inflight[i])>>
                      \o onRejected(inflight[i])
    /\ inflight' = Remove(inflight, i)
    /\ UNCHANGED <<pc, gitExecutable, listeners, held, lastEvent, raising, repoManager>>

----
\* Teardown: the host disposes context.subscriptions, first to last.

\* The subscribers left after x is disposed.
dispose(ls, x) ==
    IF x = "gitExecutableEmitter" THEN <<>>
    ELSE IF subscribesInConstructor(x) THEN unsubscribe(ls, x)
    ELSE ls

RECURSIVE disposeAll(_, _)
disposeAll(ls, xs) ==
    IF xs = <<>> THEN ls ELSE disposeAll(dispose(ls, Head(xs)), Tail(xs))

Deactivate ==
    /\ pc = "ready"
    /\ pc' = "deactivated"
    /\ trace' = trace \o <<Handler("deactivate", null)>>
                      \o [i \in 1..Len(subscriptions) |-> Call("dispose", subscriptions[i], null)]
    /\ listeners' = disposeAll(listeners, subscriptions)
    /\ UNCHANGED <<gitExecutable, held, inflight, lastEvent, raising, repoManager>>

----
Next ==
    \/ Activate
    \/ \E ge \in GitExecutables : FindGitFulfilled(ge)
    \/ FindGitRejected
    \/ \E e \in SUBSET Sections, p \in Paths \cup {nullPath} : OnDidChangeConfiguration(e, p)
    \/ \E i \in DOMAIN inflight : GetGitExecutableFulfilled(i)
    \/ \E i \in DOMAIN inflight : GetGitExecutableRejected(i)
    \/ Deactivate

Spec == Init /\ [][Next]_vars

\* The same program, with listeners that may raise.
SpecRaising == InitRaising /\ [][Next]_vars

----
\* Scans in progress: the notifications that trigger a scan, and the steps of the scan.

\* The scan begins: it reads the depth limit the setting has by then.
ScanBegin(lim) ==
    /\ repoManager.scanning = "starting"
    /\ repoManager' = [repoManager EXCEPT !.scanning = "running", !.limit = lim, !.found = {}]
    /\ UNCHANGED <<pc, gitExecutable, listeners, held, inflight, lastEvent, raising, trace>>

\* The scan finds one more root within its limit.
ScanFound(r) ==
    /\ repoManager.scanning = "running"
    /\ r <= repoManager.limit
    /\ RepositoryRecord(r, repoManager.limit) \notin repoManager.found
    /\ LET rec == RepositoryRecord(r, repoManager.limit)
       IN  repoManager' = [repoManager EXCEPT !.found = @ \cup {rec},
                                                !.repos = visibleAfterFound(@, rec)]
    /\ UNCHANGED <<pc, gitExecutable, listeners, held, inflight, lastEvent, raising, trace>>

\* The scan completes: its result replaces the repository set wholesale, and the
\* queued follow-up scan, if any, starts.
ScanComplete ==
    /\ repoManager.scanning = "running"
    /\ repoManager.found = scanResult(repoManager.limit)
    /\ repoManager' = [repoManager EXCEPT
                          !.repos = repoManager.found,
                          !.found = {},
                          !.scanning = IF repoManager.followUp THEN "starting" ELSE "idle",
                          !.isFollowUp = repoManager.followUp,
                          !.followUp = FALSE]
    /\ UNCHANGED <<pc, gitExecutable, listeners, held, inflight, lastEvent, raising, trace>>

\* The notifications after which a scan is triggered.
ScanEvents == {{"git-graph.maxDepthOfRepoSearch"}, {"git.path"}}

ScanNext ==
    \/ Activate
    \/ \E ge \in GitExecutables : FindGitFulfilled(ge)
    \/ FindGitRejected
    \/ \E e \in ScanEvents, p \in Paths \cup {nullPath} : OnDidChangeConfiguration(e, p)
    \/ \E i \in DOMAIN inflight : GetGitExecutableFulfilled(i)
    \/ \E i \in DOMAIN inflight : GetGitExecutableRejected(i)
    \/ Deactivate
    \/ \E lim \in DepthLimits : ScanBegin(lim)
    \/ \E r \in Workspace : ScanFound(r)
    \/ ScanComplete

ScanSpec == Init /\ [][ScanNext]_vars

----
\* The bus on its own: any sequence of subscribe, unsubscribe and emit calls.

BusCallCount ==
    Len(SelectSeq(trace, LAMBDA c : c.op \in {"subscribe", "unsubscribe", "emit"}))

\* A component that is not subscribed subscribes.
BusSubscribe(d) ==
    /\ BusCallCount < MaxBusCalls
    /\ d \notin Range(listeners)
    /\ listeners' = subscribe(listeners, d)
    /\ trace' = Append(trace, Call("subscribe", d, null))
    /\ UNCHANGED <<pc, gitExecutable, held, inflight, lastEvent, raising, repoManager>>

\* A component releases its subscription, whether or not it still holds one.
BusUnsubscribe(d) ==
    /\ BusCallCount < MaxBusCalls
    /\ listeners' = unsubscribe(listeners, d)
    /\ trace' = Append(trace, Call("unsubscribe", d, null))
    /\ UNCHANGED <<pc, gitExecutable, held, inflight, lastEvent, raising, repoManager>>

BusEmit(ge) ==
    /\ BusCallCount < MaxBusCalls
    /\ trace' = trace \o emit(listeners, ge)
    /\ held' = heldAfterEmit(held, listeners, ge)
    /\ UNCHANGED <<pc, gitExecutable, listeners, inflight, lastEvent, raising, repoManager>>

BusNext ==
    \/ \E d \in ReceivesEmitter : BusSubscribe(d)
    \/ \E d \in ReceivesEmitter : BusUnsubscribe(d)
    \/ \E ge \in GitExecutables : BusEmit(ge)

BusSpec == Init /\ [][BusNext]_vars

----
\* Reading the trace.

\* The entries of t with operation op, and their arguments.
Calls(t, op) == SelectSeq(t, LAMBDA c : c.op = op)

Args(t, op) == [i \in 1..Len(Calls(t, op)) |-> Calls(t, op)[i].arg]

\* What component d's listener was called with, in order.
Received(t, d) ==
    LET sel == SelectSeq(t, LAMBDA c : c.op = "listener" /\ c.who = d)
    IN  [i \in 1..Len(sel) |-> sel[i].arg]

\* The notifications shown to the user.
Shown(t) == SelectSeq(t, LAMBDA c : c.op \in {"showErrorMessage", "showInformationMessage"})

\* Where the last handler of t starts (0: none has run), and its entries.
LastHandlerIdx(t) ==
    LET H == {i \in DOMAIN t : t[i].op = "handler"}
    IN  IF H = {} THEN 0 ELSE CHOOSE i \in H : \A j \in H : j <= i

LastRun(t) == IF LastHandlerIdx(t) = 0 THEN <<>> ELSE SubSeq(t, LastHandlerIdx(t), Len(t))

LastRunIs(t, name) == LastHandlerIdx(t) > 0 /\ t[LastHandlerIdx(t)].who = name

LastRunArg(t) == t[LastHandlerIdx(t)].arg

\* The first entry of t with operation op for component who (0: none).
IndexOf(t, op, who) ==
    LET S == {i \in DOMAIN t : t[i].op = op /\ t[i].who = who}
    IN  IF S = {} THEN 0 ELSE CHOOSE i \in S : \A j \in S : i <= j

\* The entries of activate up to, not including, its report of being ready.
ReadyIdx ==
    LET S == {i \in DOMAIN trace : trace[i].op = "log" /\ trace[i].arg = ReadyMsg}
    IN  IF S = {} THEN 0 ELSE CHOOSE i \in S : \A j \in S : i <= j

BeforeReady == SubSeq(trace, 1, ReadyIdx - 1)

StartupFulfilled == IndexOf(trace, "handler", "findGit.fulfilled") > 0

StartupRejected == IndexOf(trace, "handler", "findGit.rejected") > 0

\* The identity findGit resolved to at startup.
StartupIdentity == trace[IndexOf(trace, "handler", "findGit.fulfilled")].arg

\* The dependent subsystems of the executable identity.
DependentSubsystems ==
    {"dataSource", "avatarManager", "repoManager", "statusBarItem", "commandManager",
     "extensionState"}

----
\* C1 as stated: when startup resolution succeeds, exactly one emission carrying the
\* resolved identity occurs before the system reports ready, and every dependent
\* subsystem that subscribes during its construction receives that emission.
C1_AsStated ==
    (ReadyIdx > 0 /\ StartupFulfilled) =>
        /\ Args(BeforeReady, "emit") = <<StartupIdentity>>
        /\ \A d \in DependentSubsystems :
              IndexOf(BeforeReady, "subscribe", d) > 0 =>
                  Received(BeforeReady, d) = <<StartupIdentity>>

\* C1 as amended: when startup resolution succeeds, exactly one emission carrying the
\* resolved identity occurs before the system reports ready; it reaches the one
\* dependent subscribed by then, the extension state; the data source and the command
\* manager subscribe only after it, receive no emission before ready, and are handed
\* the resolved identity as a constructor argument instead; the avatar manager, the
\* repository manager and the status bar item neither subscribe nor are handed it.
C1_StartupEmission ==
    (ReadyIdx > 0 /\ StartupFulfilled) =>
        /\ Args(BeforeReady, "emit") = <<StartupIdentity>>
        /\ Received(BeforeReady, "extensionState") = <<StartupIdentity>>
        /\ \A d \in {"dataSource", "commandManager"} :
              /\ IndexOf(BeforeReady, "subscribe", d) > IndexOf(BeforeReady, "emit", "gitExecutableEmitter")
              /\ Received(BeforeReady, d) = <<>>
              /\ BeforeReady[IndexOf(BeforeReady, "new", d)].arg = StartupIdentity
        /\ \A d \in {"avatarManager", "repoManager", "statusBarItem"} :
              /\ IndexOf(BeforeReady, "new", d) > 0
              /\ IndexOf(BeforeReady, "subscribe", d) = 0
              /\ BeforeReady[IndexOf(BeforeReady, "new", d)].arg = null

\* C1's case: the system is ready after a successful startup resolution, and the data
\* source holds the resolved identity without having received an emission.
C1_Witness ==
    /\ pc = "ready"
    /\ StartupFulfilled
    /\ LastRunIs(trace, "findGit.fulfilled")
    /\ held["dataSource"] = StartupIdentity
    /\ Received(trace, "dataSource") = <<>>
    /\ Received(trace, "extensionState") = <<StartupIdentity>>

----
\* C2: a failed re-resolution leaves activate's gitExecutable and what every
\* subscriber holds as they were, makes no emission, and shows exactly one error
\* notification, which names the offending path.
C2_FailedReResolution ==
    [][(trace' # trace /\ LastRunIs(trace', "getGitExecutable.rejected")) =>
          /\ gitExecutable' = gitExecutable
          /\ held' = held
          /\ Args(LastRun(trace'), "emit") = <<>>
          /\ Calls(LastRun(trace'), "listener") = <<>>
          /\ Len(Shown(LastRun(trace'))) = 1
          /\ Shown(LastRun(trace'))[1].op = "showErrorMessage"
          /\ LastRunArg(trace') \in Range(Shown(LastRun(trace'))[1].arg)
          /\ LastRunArg(trace') \notin DOMAIN Installed]_vars

\* C2's case: a re-resolution of an invalid path has failed while a valid executable
\* was in use.
C2_Witness ==
    /\ LastRunIs(trace, "getGitExecutable.rejected")
    /\ LastRunArg(trace) = "/tmp/not-git"
    /\ gitExecutable \in GitExecutables
    /\ held["dataSource"] \in GitExecutables

----
\* C3 as stated: after any successful resolution, initial or re-resolution,
\* activate's gitExecutable equals the identity that resolution returned.
C3_AsStated ==
    (LastRunIs(trace, "findGit.fulfilled") \/ LastRunIs(trace, "getGitExecutable.fulfilled"))
        => gitExecutable = LastRunArg(trace)

\* C3 as amended: after a successful initial resolution activate's gitExecutable
\* equals the identity it returned; the variable is assigned by the initial resolution
\* only (a re-resolution, successful or failed, leaves it as it was, the new identity
\* reaching the subscribers by emission), and it is never set back to absent once it
\* has held a value.
C3_CurrentSetAtStartupOnly ==
    [][/\ (trace' # trace /\ LastRunIs(trace', "findGit.fulfilled"))
              => gitExecutable' = LastRunArg(trace')
       /\ gitExecutable' # gitExecutable
              => (pc = "findGit" /\ LastRunIs(trace', "findGit.fulfilled"))
       /\ gitExecutable # null => gitExecutable' = gitExecutable
       /\ (trace' # trace /\ LastRunIs(trace', "getGitExecutable.fulfilled"))
              => /\ gitExecutable' = gitExecutable
                 /\ \A d \in Range(listeners) : held'[d] = LastRunArg(trace')]_vars

\* C3's case: a re-resolution succeeded with an identity other than the one found at
\* startup, and the data source holds the new one.
C3_Witness ==
    /\ LastRunIs(trace, "getGitExecutable.fulfilled")
    /\ gitExecutable \in GitExecutables
    /\ gitExecutable # LastRunArg(trace)
    /\ held["dataSource"] = LastRunArg(trace)

----
\* C4: there are never two executable resolutions in flight at once.
C4_SingleResolutionInFlight == Len(inflight) <= 1

----
\* C5: in every reachable state the number of emit calls on the bus equals the
\* number of successful resolutions (initial and re-resolutions) completed so far.
C5_EmissionsEqualSuccesses ==
    Len(Calls(trace, "emit"))
        = Len(SelectSeq(trace, LAMBDA c : /\ c.op = "handler"
                                          /\ c.who \in {"findGit.fulfilled",
                                                        "getGitExecutable.fulfilled"}))

\* C5's case: the initial resolution and one re-resolution succeeded, another
\* re-resolution failed, and none is pending.
C5_Witness ==
    /\ Len(Calls(trace, "emit")) = 2
    /\ StartupFulfilled
    /\ IndexOf(trace, "handler", "getGitExecutable.rejected") > 0
    /\ inflight = <<>>

----
\* C6: when startup resolution fails there is no emission, activate's gitExecutable
\* is absent (and stays so), exactly one error notification, the fixed
\* unable-to-find message, is shown, and startup is not aborted: every dependent is
\* constructed, after which the system reports ready, no component holding an
\* executable.
C6_StartupFailure ==
    /\ StartupRejected => gitExecutable = null
    /\ LastRunIs(trace, "findGit.rejected") =>
          /\ Args(trace, "emit") = <<>>
          /\ Len(Shown(trace)) = 1
          /\ Shown(trace)[1].op = "showErrorMessage"
          /\ Shown(trace)[1].arg = UNABLE_TO_FIND_GIT_MSG
          /\ pc = "ready"
          /\ ReadyIdx > 0
          /\ \A d \in DependentSubsystems :
                /\ IndexOf(trace, "new", d) > 0
                /\ IndexOf(trace, "new", d) < ReadyIdx
          /\ \A d \in DOMAIN held : held[d] = null

\* C6's case: startup resolution has failed and activate has run to its end.
C6_Witness ==
    /\ LastRunIs(trace, "findGit.rejected")
    /\ pc = "ready"
    /\ trace[Len(trace)].op = "expireOldCodeReviews"

----
\* C7: a successful re-resolution makes exactly one emission, carrying the identity
\* of the executable at the requested path, and shows exactly one notification, an
\* informational one naming that identity's path and version, and no error.
C7_SuccessfulReResolution ==
    LastRunIs(trace, "getGitExecutable.fulfilled") =>
        LET ge == LastRunArg(trace)
            run == LastRun(trace)
        IN  /\ ge \in GitExecutables
            /\ Args(run, "emit") = <<ge>>
            /\ Len(Shown(run)) = 1
            /\ Shown(run)[1].op = "showInformationMessage"
            /\ ge.path \in Range(Shown(run)[1].arg)
            /\ ge.version \in Range(Shown(run)[1].arg)
            /\ Calls(run, "showErrorMessage") = <<>>

\* C7's case: a re-resolution to the second executable has succeeded after startup
\* found the first.
C7_Witness ==
    /\ LastRunIs(trace, "getGitExecutable.fulfilled")
    /\ LastRunArg(trace).path = "/opt/git2/bin/git"
    /\ StartupFulfilled
    /\ StartupIdentity.path = "/usr/bin/git"

----
\* The two settings the core reacts to.
CoreSections == {"git-graph.maxDepthOfRepoSearch", "git.path"}

\* C8: whether a notification triggers a rescan or reads the path for a
\* re-resolution depends only on which of the depth limit and the executable path it
\* affects: it does what the notification affecting only those of the two does.
C8_UnrelatedSettingsIgnored ==
    LastRunIs(trace, "onDidChangeConfiguration") =>
        LET core == lastEvent \cap CoreSections
            run == LastRun(trace)
        IN  /\ (Calls(run, "maxDepthOfRepoSearchChanged") # <<>>)
                    <=> ("git-graph.maxDepthOfRepoSearch" \in core)
            /\ (Calls(run, "getConfig") # <<>>)
                    <=> (core = {"git.path"})

----
\* The settings in the order the listener checks them, and the call each leads to.
CheckedOrder ==
    <<{"git-graph.showStatusBarItem"},
      {"git-graph.dateType", "git-graph.showSignatureStatus", "git-graph.useMailmap"},
      {"git-graph.maxDepthOfRepoSearch"},
      {"git.path"}>>

EffectOf ==
    <<"refresh", "generateGitCommandFormats", "maxDepthOfRepoSearchChanged",
      "getGitExecutable">>

\* The first entry of CheckedOrder that event e affects (0: none).
FirstMatch(e) ==
    LET K == {k \in DOMAIN CheckedOrder : CheckedOrder[k] \cap e # {}}
    IN  IF K = {} THEN 0 ELSE CHOOSE k \in K : \A j \in K : k <= j

Downstream(run) == SelectSeq(run, LAMBDA c : c.op \in Range(EffectOf))

\* C9: a notification has at most one downstream effect, that of the first setting
\* it affects in the checked order (status bar, command formats, depth limit,
\* executable path); one affecting both the depth limit and the executable path (and
\* nothing checked earlier) triggers the rescan only, and starts no resolution.
C9_FirstMatchOnly ==
    LastRunIs(trace, "onDidChangeConfiguration") =>
        LET k == FirstMatch(lastEvent)
            ds == Downstream(LastRun(trace))
        IN  /\ Len(ds) <= 1
            /\ k = 0 => ds = <<>>
            /\ k > 0 => \A i \in DOMAIN ds : ds[i].op = EffectOf[k]
            /\ (k > 0 /\ EffectOf[k] # "getGitExecutable") => Len(ds) = 1
            /\ (Calls(LastRun(trace), "getConfig") # <<>>) <=> (k > 0 /\ EffectOf[k] = "getGitExecutable")
            /\ (k > 0 /\ EffectOf[k] = "getGitExecutable"
                      /\ Args(LastRun(trace), "getConfig") # <<nullPath>>)
                    => Len(ds) = 1

\* C9's case: a notification affecting the depth limit and the executable path has
\* been handled, and the rescan is its only effect.
C9_Witness ==
    /\ LastRunIs(trace, "onDidChangeConfiguration")
    /\ lastEvent = {"git-graph.maxDepthOfRepoSearch", "git.path"}
    /\ Len(LastRun(trace)) = 2
    /\ LastRun(trace)[2].op = "maxDepthOfRepoSearchChanged"

----
\* C10: during shutdown every dependent subsystem is disposed before the change bus
\* is, the teardown list being walked first to last.
C10_DependentsBeforeBus ==
    \A j \in DOMAIN trace :
        (trace[j].op = "dispose" /\ trace[j].who = "gitExecutableEmitter") =>
            \A d \in DependentSubsystems :
                \E i \in 1..(j - 1) : trace[i].op = "dispose" /\ trace[i].who = d

\* C10's case: teardown has run, the bus was disposed and no subscriber is left.
C10_Witness ==
    /\ pc = "deactivated"
    /\ IndexOf(trace, "dispose", "gitExecutableEmitter") > 0
    /\ listeners = <<>>

----
\* The calls that act on the outside: emissions, notifications, scan triggers.
Triggers ==
    {"emit", "showErrorMessage", "showInformationMessage", "searchWorkspaceForRepos",
     "maxDepthOfRepoSearchChanged"}

\* C11: once the disposal of a dependent or of the bus has started, no emit call,
\* notification or repository-scan trigger is made any more, not even by a
\* re-resolution that was in flight when teardown began.
C11_NoTriggerAfterTeardown ==
    \A i \in DOMAIN trace :
        trace[i].op = "dispose" =>
            \A j \in (i + 1)..Len(trace) : trace[j].op \notin Triggers

----
\* C12 as stated: the system reports ready only after the initial resolution has
\* completed and after every dependent subsystem has been constructed and has made
\* its subscription to the bus.
C12_AsStated ==
    ReadyIdx > 0 =>
        /\ \E i \in 1..(ReadyIdx - 1) :
              /\ trace[i].op = "handler"
              /\ trace[i].who \in {"findGit.fulfilled", "findGit.rejected"}
        /\ \A d \in DependentSubsystems :
              /\ IndexOf(trace, "new", d) \in 1..(ReadyIdx - 1)
              /\ IndexOf(trace, "subscribe", d) \in 1..(ReadyIdx - 1)

\* C12 as amended: the system reports ready once only, after the initial resolution
\* has completed (resolved or rejected), after every dependent subsystem has been
\* constructed, and after every subscription to the bus that a dependent makes: the
\* extension state, the data source and the command manager, which are handed the
\* bus, subscribe in their constructors; the avatar manager, the repository manager
\* and the status bar item are not handed it and make none.  No subscription
\* follows the ready report.
C12_ReadyAfterSubscriptions ==
    ReadyIdx > 0 =>
        /\ Len(SelectSeq(trace, LAMBDA c : c.op = "log" /\ c.arg = ReadyMsg)) = 1
        /\ \E i \in 1..(ReadyIdx - 1) :
              /\ trace[i].op = "handler"
              /\ trace[i].who \in {"findGit.fulfilled", "findGit.rejected"}
        /\ \A d \in DependentSubsystems :
              /\ IndexOf(trace, "new", d) > 0
              /\ IndexOf(trace, "new", d) < ReadyIdx
        /\ \A d \in Range(listeners) : IndexOf(trace, "subscribe", d) > 0
        /\ \A i \in DOMAIN trace : trace[i].op = "subscribe" => i < ReadyIdx
        /\ \A d \in {"extensionState", "dataSource", "commandManager"} :
              IndexOf(trace, "subscribe", d) > IndexOf(trace, "new", d)
        /\ \A d \in {"avatarManager", "repoManager", "statusBarItem"} :
              IndexOf(trace, "subscribe", d) = 0

\* C12's case: ready has been reported, with three subscribers on the bus.
C12_Witness ==
    /\ ReadyIdx > 0
    /\ pc = "ready"
    /\ Len(listeners) = 3

----
\* C13: a notification dispatched to the depth-limit handler makes exactly one
\* rescan request to the repository manager and nothing else, whatever the
\* executable state: it reads no setting and consults no executable.
C13_DepthChangeRescansOnce ==
    (LastRunIs(trace, "onDidChangeConfiguration")
        /\ "git-graph.maxDepthOfRepoSearch" \in lastEvent
        /\ lastEvent \cap UNION {CheckedOrder[k] : k \in 1..2} = {}) =>
            /\ Len(LastRun(trace)) = 2
            /\ LastRun(trace)[2].op = "maxDepthOfRepoSearchChanged"
            /\ LastRun(trace)[2].who = "repoManager"

\* C13's case: the depth limit changed while no Git executable was known, and the
\* rescan was requested all the same.
C13_Witness ==
    /\ LastRunIs(trace, "onDidChangeConfiguration")
    /\ lastEvent = {"git-graph.maxDepthOfRepoSearch"}
    /\ StartupRejected
    /\ \A d \in DOMAIN held : held[d] = null
    /\ Calls(LastRun(trace), "maxDepthOfRepoSearchChanged") # <<>>

----
\* The components subscribed after the first i entries of t, in subscription order.
RECURSIVE SubscribedAt(_, _)
SubscribedAt(t, i) ==
    IF i = 0 THEN <<>>
    ELSE LET prev == SubscribedAt(t, i - 1)
         IN  IF t[i].op = "subscribe" THEN Append(prev, t[i].who)
             ELSE IF t[i].op = "unsubscribe" THEN SelectSeq(prev, LAMBDA x : x # t[i].who)
             ELSE prev

\* C14: for every sequence of subscribe, unsubscribe and emit calls, an emit calls
\* each callback subscribed at that moment exactly once, in subscription order, with
\* the emitted value, and calls no callback that was unsubscribed before it.
C14_EmitCallsSubscribedInOrder ==
    \A i \in DOMAIN trace :
        trace[i].op = "emit" =>
            LET ls == SubscribedAt(trace, i - 1)
            IN  /\ i + Len(ls) <= Len(trace)
                /\ \A k \in 1..Len(ls) :
                      /\ trace[i + k].op = "listener"
                      /\ trace[i + k].who = ls[k]
                      /\ trace[i + k].arg = trace[i].arg
                /\ i + Len(ls) < Len(trace) => trace[i + Len(ls) + 1].op # "listener"

\* C14's case: two components subscribed, the first unsubscribed, and an emit
\* followed that called the second only.
C14_Witness ==
    \E i \in DOMAIN trace :
        /\ trace[i].op = "emit"
        /\ \E j \in 1..(i - 1) : trace[j].op = "unsubscribe" /\ IndexOf(trace, "subscribe", trace[j].who) \in 1..(j - 1)
        /\ Len(SubscribedAt(trace, i - 1)) = 1
        /\ i + 1 = Len(trace)
        /\ trace[i + 1].op = "listener"

----
\* C15: a listener that raises during emit does not keep the later subscribers from
\* being called in that emission, and the caller of emit goes on as after any emit:
\* at startup no unable-to-find error is shown and activate's gitExecutable is the
\* resolved identity, and after a re-resolution the informational notification and
\* the repository search still happen.
C15_RaisingListenerIsolated ==
    /\ LastRunIs(trace, "findGit.fulfilled") =>
          /\ Received(LastRun(trace), "extensionState") = <<LastRunArg(trace)>>
          /\ gitExecutable = LastRunArg(trace)
          /\ Shown(trace) = <<>>
          /\ ReadyIdx > 0
    /\ LastRunIs(trace, "getGitExecutable.fulfilled") =>
          /\ \A d \in Range(listeners) : Received(LastRun(trace), d) = <<LastRunArg(trace)>>
          /\ Len(Shown(LastRun(trace))) = 1
          /\ Shown(LastRun(trace))[1].op = "showInformationMessage"
          /\ Len(Calls(LastRun(trace), "searchWorkspaceForRepos")) = 1
          /\ StartupFulfilled => gitExecutable = StartupIdentity

\* C15's case: the first subscriber's listener raised in the emission of a
\* re-resolution, and the last subscriber was called after it.
C15_Witness ==
    /\ raising = {"extensionState"}
    /\ LastRunIs(trace, "getGitExecutable.fulfilled")
    /\ listeners = <<"extensionState", "dataSource", "commandManager">>
    /\ \E i, j \in DOMAIN LastRun(trace) :
          /\ i < j
          /\ LastRun(trace)[i].op = "logError"
          /\ LastRun(trace)[j].op = "listener"
          /\ LastRun(trace)[j].who = "commandManager"
    /\ held["commandManager"] = LastRunArg(trace)

----
\* C16: whatever triggers arrive while a scan is in flight, the repository set
\* readers see is empty (no scan has completed) or is the complete result of one
\* scan at one depth limit; it never holds part of a scan or records of two limits.
C16_VisibleSetIsOneCompleteScan ==
    \/ repoManager.repos = {}
    \/ \E lim \in DepthLimits : repoManager.repos = scanResult(lim)

\* C16's case: a re-resolution's search arrived while a scan was in flight and was
\* queued; that follow-up scan is now part-way through at one depth limit while
\* readers see the complete result of the scan at another.
C16_Witness ==
    /\ LastRunIs(trace, "getGitExecutable.fulfilled")
    /\ Len(Calls(trace, "maxDepthOfRepoSearchChanged")) = 1
    /\ repoManager.scanning = "running"
    /\ repoManager.isFollowUp
    /\ repoManager.found # {}
    /\ repoManager.found # scanResult(repoManager.limit)
    /\ \E lim \in DepthLimits :
          /\ lim # repoManager.limit
          /\ repoManager.repos = scanResult(lim)

----
\* The paths handed to getGitExecutable by the listener that resolve successfully,
\* in the order of their notifications.
NotifiedValidPaths ==
    SelectSeq(Args(trace, "getGitExecutable"), LAMBDA p : getGitExecutable(p).ok)

\* C17, as stated: once every resolution the git.path notifications started has
\* completed, the last identity emitted is the one resolved for the most recently
\* notified path that resolves successfully.
C17_LastEmittedIsLatestValid ==
    (pc = "ready" /\ inflight = <<>> /\ NotifiedValidPaths # <<>>) =>
        Args(trace, "emit")[Len(Args(trace, "emit"))]
            = getGitExecutable(NotifiedValidPaths[Len(NotifiedValidPaths)]).value

----
\* How many times handler `name` has run.
RunCount(name) == Len(SelectSeq(trace, LAMBDA c : c.op = "handler" /\ c.who = name))

\* C18: a run of the fulfilment callback makes exactly one searchWorkspaceForRepos
\* call, placed after the emit call and after the listener call of every subscriber;
\* the rejection callback and activate make none, so the searches made so far are as
\* many as the successful re-resolutions.
C18_OneSearchAfterEmission ==
    /\ LastRunIs(trace, "getGitExecutable.fulfilled") =>
          LET run == LastRun(trace)
              s == IndexOf(run, "searchWorkspaceForRepos", "repoManager")
          IN  /\ Len(Calls(run, "searchWorkspaceForRepos")) = 1
              /\ Args(run, "emit") = <<LastRunArg(trace)>>
              /\ \A d \in Range(listeners) : Received(run, d) = <<LastRunArg(trace)>>
              /\ \A j \in DOMAIN run : run[j].op \in {"emit", "listener"} => j < s
    /\ LastRunIs(trace, "getGitExecutable.rejected") =>
          Calls(LastRun(trace), "searchWorkspaceForRepos") = <<>>
    /\ (LastRunIs(trace, "findGit.fulfilled") \/ LastRunIs(trace, "findGit.rejected")) =>
          Calls(trace, "searchWorkspaceForRepos") = <<>>
    /\ Len(Calls(trace, "searchWorkspaceForRepos")) = RunCount("getGitExecutable.fulfilled")

\* C18's case: a successful re-resolution with three subscribers has just run, after a
\* failed one.
C18_Witness ==
    /\ LastRunIs(trace, "getGitExecutable.fulfilled")
    /\ Len(listeners) = 3
    /\ RunCount("getGitExecutable.rejected") = 1
    /\ Len(Calls(trace, "searchWorkspaceForRepos")) = 1
    /\ LastRun(trace)[Len(LastRun(trace))].op = "searchWorkspaceForRepos"

----
\* C19: when the "git.path" branch is taken and getConfig().gitPath reads null, the
\* listener returns at once: the run consists of the read of the setting alone (no
\* resolution, emission, notification or search), and the pending resolutions, the
\* identity every subscriber holds, activate's gitExecutable, the subscribers and
\* repoManager's scan state are as before.
C19_NullPathNoEffect ==
    [][(/\ trace' # trace
        /\ LastRunIs(trace', "onDidChangeConfiguration")
        /\ Args(LastRun(trace'), "getConfig") = <<nullPath>>)
       => /\ LastRun(trace') = <<Handler("onDidChangeConfiguration", null),
                                 Call("getConfig", "config", nullPath)>>
          /\ trace' = trace \o LastRun(trace')
          /\ inflight' = inflight
          /\ held' = held
          /\ gitExecutable' = gitExecutable
          /\ listeners' = listeners
          /\ repoManager' = repoManager]_vars

\* C19's case: the notification with a null path has just run while subscribers hold
\* an identity and an earlier resolution is still pending.
C19_Witness ==
    /\ LastRunIs(trace, "onDidChangeConfiguration")
    /\ Args(LastRun(trace), "getConfig") = <<nullPath>>
    /\ lastEvent = {"git.path"}
    /\ held["dataSource"] \in GitExecutables
    /\ Len(inflight) = 1

====
